---- MODULE Spec2Model ----
(***************************************************************************)
(* A model of server/index.js: the per-IP rate limiter, the signal         *)
(* extractor, the risk floor, analyzePrompt, generateSanitizedAttacks and  *)
(* the /analyze, /redteam, /evaluate and /health routes.                   *)
(*                                                                         *)
(* JavaScript values are tagged records.  A string is a sequence of        *)
(* tokens (a token stands for a run of characters that the patterns treat  *)
(* as a unit); a number is counted in units of 1/Den, so that fractional   *)
(* scores exist; an object carries its own properties as a function from   *)
(* key to value, and an array carries its elements and any extra           *)
(* properties assigned to it.                                              *)
(***************************************************************************)
EXTENDS Integers, Sequences, FiniteSets, TLC

VARIABLES now, ipHits, reqs

vars == <<now, ipHits, reqs>>

\* ------------------------------------------------------------------ bounds
\* Numbers are multiples of 1/Den.
Den == 2
\* The longest "short" prompts list of /evaluate whose items are drawn freely.
MaxList == 3
\* The longest array the variant generator's model text may hold.
MaxArr == 4
\* RateSpec: how many requests arrive, and how far the clock runs.
MaxRequests == 4
MaxTime == 2

\* ------------------------------------------------------------ JS values
Undefined == [t |-> "undefined"]
Null == [t |-> "null"]
Bool(b) == [t |-> "boolean", b |-> b]
\* a finite number k/Den
Num(k) == [t |-> "number", fin |-> TRUE, n |-> k]
\* the integer i
Whole(i) == Num(i * Den)
\* the number Infinity (what JSON.parse gives for a literal such as 1e999)
Infinity == [t |-> "number", fin |-> FALSE, n |-> 0]
Str(s) == [t |-> "string", s |-> s]
NoProps == [k \in {} |-> [t |-> "undefined"]]
Obj(props) == [t |-> "object", isArray |-> FALSE, items |-> <<>>, props |-> props]
Arr(items) == [t |-> "object", isArray |-> TRUE, items |-> items, props |-> NoProps]

Has(o, key) == o.t = "object" /\ key \in DOMAIN o.props
\* o[key], o?.[key]
Get(o, key) == IF Has(o, key) THEN o.props[key] ELSE Undefined
\* o[key] = v on an object (arrays included)
Put(o, key, v) ==
    [o EXCEPT !.props = [k \in DOMAIN o.props \cup {key} |->
                            IF k = key THEN v ELSE o.props[k]]]
\* { ...a, ...b } on property maps: b's own properties win
Merge(a, b) == [k \in DOMAIN a \cup DOMAIN b |-> IF k \in DOMAIN b THEN b[k] ELSE a[k]]

IsString(v) == v.t = "string"
Truthy(v) ==
    CASE v.t = "undefined" -> FALSE
      [] v.t = "null" -> FALSE
      [] v.t = "boolean" -> v.b
      [] v.t = "number" -> ~(v.fin /\ v.n = 0)
      [] v.t = "string" -> v.s # <<>>
      [] OTHER -> TRUE

\* Number.isFinite
IsFinite(v) == v.t = "number" /\ v.fin
\* Number.isInteger
IsInteger(v) == IsFinite(v) /\ v.n % Den = 0

MathMax(a, b) == IF a >= b THEN a ELSE b
MathMin(a, b) == IF a <= b THEN a ELSE b

\* ------------------------------------------------------------ patterns
\* A regular expression is a set of alternatives; an alternative is a
\* sequence of elements: a literal token, \s*, \s+ or \b.  All patterns
\* carry the i flag and none carries g, so test() keeps no state.
L(tok) == [k |-> "lit", tok |-> tok]
S0 == [k |-> "ws*", tok |-> ""]
S1 == [k |-> "ws+", tok |-> ""]
B == [k |-> "b", tok |-> ""]

IsSpace(tok) == tok = " "
\* tokens made of characters outside \w
IsWordTok(tok) == tok \notin {" ", "-", "!"}

\* case folding of the i flag, on the tokens that carry upper case
Fold(tok) ==
    CASE tok = "DAN" -> "dan"
      [] tok = "Dan" -> "dan"
      [] tok = "System" -> "system"
      [] tok = "AUTHORIZED" -> "authorized"
      [] OTHER -> tok

\* \b at position i (between token i-1 and token i)
WordBoundary(p, i) ==
    LET before == i > 1 /\ IsWordTok(p[i - 1])
        after == i <= Len(p) /\ IsWordTok(p[i])
    IN  before # after

RECURSIVE MatchFrom(_, _, _, _)
\* elements k.. of alternative re match text p from position i on
MatchFrom(re, k, p, i) ==
    IF k > Len(re) THEN TRUE
    ELSE LET e == re[k] IN
         CASE e.k = "lit" ->
                  /\ i <= Len(p)
                  /\ Fold(p[i]) = Fold(e.tok)
                  /\ MatchFrom(re, k + 1, p, i + 1)
           [] e.k = "ws*" ->
                  \/ MatchFrom(re, k + 1, p, i)
                  \/ (i <= Len(p) /\ IsSpace(p[i]) /\ MatchFrom(re, k, p, i + 1))
           [] e.k = "ws+" ->
                  /\ i <= Len(p)
                  /\ IsSpace(p[i])
                  /\ (MatchFrom(re, k + 1, p, i + 1) \/ MatchFrom(re, k, p, i + 1))
           [] OTHER ->
                  WordBoundary(p, i) /\ MatchFrom(re, k + 1, p, i)

\* re.test(p): a match anywhere in the text
Test(re, p) == \E alt \in re : \E i \in 1..(Len(p) + 1) : MatchFrom(alt, 1, p, i)

SENSITIVE_TARGET_PATTERNS ==
    << {<<L("developer"), S0, L("mode")>>},
       {<<L("system"), S0, L("prompt")>>},
       {<<L("hidden"), S0, L(w)>> : w \in {"instructions", "config", "configuration"}},
       {<<L("internal"), S0, L(w)>> : w \in {"policy", "config", "configuration"}},
       {<<B, L(w), B>> : w \in {"secret", "token", "credential", "password"}}
           \cup {<<B, L("api"), L("key"), B>>,
                 <<B, L("api"), L("_"), L("key"), B>>,
                 <<B, L("api"), L("-"), L("key"), B>>},
       {<<L("ignore"), S1, L("all"), S1, L(w), S1, L("instructions")>> :
           w \in {"previous", "prior"}},
       {<<L("system"), S1, L("override")>>},
       {<<B, L("unrestricted"), B>>},
       {<<B, L("DAN"), B>>} >>

SOCIAL_ENGINEERING_PATTERNS ==
    << {<<L("for"), S1, L(w)>> : w \in {"research", "testing", "pentest"}}
           \cup {<<L("for"), S1, L("security"), S1, L("audit")>>},
       {<<L("i"), S1, L("have"), S1, L("permission")>>},
       {<<L("authorized")>>},
       {<<L("as"), S1, L("a"), S1, L("researcher")>>} >>

\* (prompt || "").toString() for the prompts of the model: strings or undefined
PromptText(prompt) == IF Truthy(prompt) /\ IsString(prompt) THEN prompt.s ELSE <<>>

matches(patterns, p) == \E j \in 1..Len(patterns) : Test(patterns[j], p)

MkSignals(sensitive, social) ==
    Obj([sensitiveTarget |-> Bool(sensitive), socialEngineering |-> Bool(social)])

extractSignals(prompt) ==
    LET p == PromptText(prompt)
    IN  MkSignals(matches(SENSITIVE_TARGET_PATTERNS, p),
                  matches(SOCIAL_ENGINEERING_PATTERNS, p))

\* applyRiskFloor with the floors chained by else-if, the lower one first
applyRiskFloorElseIf(modelRisk, signals) ==
    LET risk0 == IF IsFinite(modelRisk) THEN modelRisk.n ELSE 0
        risk1 == IF Get(signals, "socialEngineering").b THEN MathMax(risk0, 40 * Den)
                 ELSE IF Get(signals, "sensitiveTarget").b THEN MathMax(risk0, 80 * Den)
                 ELSE risk0
    IN  Num(MathMax(0, MathMin(100 * Den, risk1)))

\* applyRiskFloor assigning the floor where it should take the maximum
applyRiskFloorAssigns(modelRisk, signals) ==
    LET risk0 == IF IsFinite(modelRisk) THEN modelRisk.n ELSE 0
        risk1 == IF Get(signals, "sensitiveTarget").b THEN 80 * Den ELSE risk0
        risk2 == IF Get(signals, "socialEngineering").b THEN 40 * Den ELSE risk1
    IN  Num(MathMax(0, MathMin(100 * Den, risk2)))

\* applyRiskFloor without the social-engineering floor
applyRiskFloorSensitiveOnly(modelRisk, signals) ==
    LET risk0 == IF IsFinite(modelRisk) THEN modelRisk.n ELSE 0
        risk1 == IF Get(signals, "sensitiveTarget").b THEN MathMax(risk0, 80 * Den) ELSE risk0
    IN  Num(MathMax(0, MathMin(100 * Den, risk1)))

\* applyRiskFloor applying the lower floor to every prompt
applyRiskFloorEveryPrompt(modelRisk, signals) ==
    LET risk0 == IF IsFinite(modelRisk) THEN modelRisk.n ELSE 0
        risk1 == IF Get(signals, "sensitiveTarget").b THEN MathMax(risk0, 80 * Den) ELSE risk0
        risk2 == MathMax(risk1, 40 * Den)
    IN  Num(MathMax(0, MathMin(100 * Den, risk2)))

\* ------------------------------------------------------------ risk floor
applyRiskFloor(modelRisk, signals) ==
    LET risk0 == IF IsFinite(modelRisk) THEN modelRisk.n ELSE 0
        risk1 == IF Get(signals, "sensitiveTarget").b THEN MathMax(risk0, 80 * Den) ELSE risk0
        risk2 == IF Get(signals, "socialEngineering").b THEN MathMax(risk1, 40 * Den) ELSE risk1
    IN  Num(MathMax(0, MathMin(100 * Den, risk2)))


\* ------------------------------------------------------------ JSON
\* The text of a model reply is a string; JSON.parse either throws on it
\* or yields the value the text denotes.
JsonText(v) == [t |-> "string", s |-> <<"<json>">>, parses |-> TRUE, value |-> v]
BadText == [t |-> "string", s |-> <<"<not json>">>, parses |-> FALSE, value |-> Undefined]

safeJsonParse(maybeJson) ==
    IF "parses" \in DOMAIN maybeJson /\ maybeJson.parses
    THEN [ok |-> TRUE, value |-> maybeJson.value]
    ELSE [ok |-> FALSE, value |-> Undefined]

RECURSIVE Serialize(_)
\* What a client reads from res.send(v): JSON.stringify keeps an array's
\* elements and drops its other properties, drops properties whose value
\* is undefined, and writes a non-finite number as null.
Serialize(v) ==
    CASE v.t = "number" -> IF v.fin THEN v ELSE Null
      [] v.t = "object" ->
            LET items == [i \in 1..Len(v.items) |->
                            IF v.items[i].t = "undefined" THEN Null
                            ELSE Serialize(v.items[i])]
                keep == {k \in DOMAIN v.props : v.props[k].t # "undefined"}
            IN  IF v.isArray
                THEN [t |-> "object", isArray |-> TRUE, items |-> items, props |-> NoProps]
                ELSE [t |-> "object", isArray |-> FALSE, items |-> items,
                      props |-> [k \in keep |-> Serialize(v.props[k])]]
      [] OTHER -> v

\* { prompt: p, ...analyzed }: the own enumerable properties of analyzed
\* (an array's indices and extra properties included) laid over prompt
SpreadWithPrompt(p, analyzed) ==
    [t |-> "object", isArray |-> FALSE, items |-> analyzed.items,
     props |-> Merge([prompt |-> p], analyzed.props)]

\* ------------------------------------------------------------ rate limiter
\* The window and the maximum come from the environment; the model runs with
\* a window of 1 ms and a maximum of 2 requests.
RATE_WINDOW_MS == 1
RATE_MAX_REQ == 2
\* the longest prompts list /evaluate accepts
MAX_PROMPTS == 50

\* req.headers["x-forwarded-for"]?.toString().split(",")[0]?.trim()
\*   || req.socket.remoteAddress || "unknown"
\* xff is the header's comma-separated list (<<>>: no header), remote the
\* socket's address ("": none).
ClientIp(xff, remote) ==
    IF xff # <<>> /\ xff[1] # "" THEN xff[1]
    ELSE IF remote # "" THEN remote
    ELSE "unknown"

\* HitRecord that moves resetAt on when the window has elapsed but keeps the count
HitRecordKeepsCount(hits, ip, t) ==
    LET record == IF ip \in DOMAIN hits THEN hits[ip]
                  ELSE [count |-> 0, resetAt |-> t + RATE_WINDOW_MS]
        fresh == IF t > record.resetAt
                 THEN [record EXCEPT !.resetAt = t + RATE_WINDOW_MS]
                 ELSE record
    IN  [fresh EXCEPT !.count = @ + 1]

\* HitRecord that counts the request before it looks at the window, so that
\* the reset wipes the request's own increment
HitRecordCountsBeforeReset(hits, ip, t) ==
    LET record == IF ip \in DOMAIN hits THEN hits[ip]
                  ELSE [count |-> 0, resetAt |-> t + RATE_WINDOW_MS]
        counted == [record EXCEPT !.count = @ + 1]
    IN  IF t > counted.resetAt
        THEN [count |-> 0, resetAt |-> t + RATE_WINDOW_MS]
        ELSE counted

\* The record rateLimit stores for ip at time t, after counting this request.
HitRecord(hits, ip, t) ==
    LET record == IF ip \in DOMAIN hits THEN hits[ip]
                  ELSE [count |-> 0, resetAt |-> t + RATE_WINDOW_MS]
        fresh == IF t > record.resetAt
                 THEN [count |-> 0, resetAt |-> t + RATE_WINDOW_MS]
                 ELSE record
    IN  [fresh EXCEPT !.count = @ + 1]

\* ipHits.set(ip, record)
MapSet(hits, ip, record) ==
    [k \in DOMAIN hits \cup {ip} |-> IF k = ip THEN record ELSE hits[k]]

\* record.count > RATE_MAX_REQ
Limited(record) == record.count > RATE_MAX_REQ

\* ------------------------------------------------------------ requests
\* pc: "new" (not yet arrived), "fetch" (awaiting fetch(), the timer armed),
\* "body" (awaiting response.json()), "done" (response sent).
\* at: Date.now() when rateLimit saw the request.
\* log: the outbound calls of the request, each with the data the remote
\* service returned and what the calling function made of it.
NewReq ==
    [pc |-> "new", route |-> "", xff |-> <<>>, remote |-> "", at |-> 0, body |-> Undefined,
     fn |-> "", cur |-> Undefined, signals |-> Undefined, timer |-> "none",
     variations |-> <<>>, results |-> <<>>, status |-> 0, resp |-> Undefined,
     log |-> <<>>]

ErrorBody(msg) == Obj([error |-> Str(<<msg>>)])

\* res.status(code).send(body)
Respond(rec, code, body) ==
    [rec EXCEPT !.pc = "done", !.status = code, !.resp = Serialize(body),
                !.fn = "", !.cur = Undefined, !.signals = Undefined]

\* how the last outbound call of the log ended
Settle(log, data, state, value) ==
    [log EXCEPT ![Len(log)] = [@ EXCEPT !.data = data, !.state = state, !.value = value]]

\* A throw inside a route's try block: the catch sends 500 with err.message,
\* or with the route's default when the message is empty.
Throw(rec, msg) ==
    LET dflt == CASE rec.route = "/analyze" -> "Analyze failed"
                  [] rec.route = "/redteam" -> "Red team failed"
                  [] OTHER -> "Evaluate failed"
    IN  Respond(rec, 500, ErrorBody(IF msg = "" THEN dflt ELSE msg))

\* a failed call that is sent once more before the failure is thrown
RetryInCall(rec, data, msg) ==
    LET settled == [rec EXCEPT !.log = Settle(rec.log, data, "threw", Str(<<msg>>))]
    IN  IF Len(rec.log) < 2
        THEN [settled EXCEPT !.pc = "fetch", !.timer = "armed",
                !.log = Append(@, [fn |-> rec.fn, prompt |-> rec.cur, data |-> Undefined,
                                   state |-> "pending", value |-> Undefined])]
        ELSE Throw(settled, msg)

\* a throw that ends the pending outbound call
ThrowInCall(rec, data, msg) ==
    Throw([rec EXCEPT !.log = Settle(rec.log, data, "threw", Str(<<msg>>))], msg)

\* !prompt || !prompt.toString().trim()
MissingPrompt(prompt) ==
    \/ ~Truthy(prompt)
    \/ (IsString(prompt) /\ \A i \in 1..Len(prompt.s) : IsSpace(prompt.s[i]))

\* fetchWithTimeout(...): one outbound call, its timer armed
StartFetch(rec, fn, prompt, signals) ==
    [rec EXCEPT !.pc = "fetch", !.fn = fn, !.cur = prompt, !.signals = signals,
                !.timer = "armed",
                !.log = Append(@, [fn |-> fn, prompt |-> prompt, data |-> Undefined,
                                   state |-> "pending", value |-> Undefined])]

\* analyzePrompt up to its first await
BeginAnalyze(rec, prompt) ==
    IF MissingPrompt(prompt) THEN Throw(rec, "Missing prompt")
    ELSE StartFetch(rec, "analyzePrompt", prompt, extractSignals(prompt))

\* generateSanitizedAttacks up to its first await
BeginGenerate(rec, prompt) ==
    IF MissingPrompt(prompt) THEN Throw(rec, "Missing prompt")
    ELSE StartFetch(rec, "generateSanitizedAttacks", prompt, Undefined)

\* data?.candidates?.[0]?.content?.parts?.[0]?.text: the model keeps that
\* path as the one property "text" of data.
ModelText(data) == Get(data, "text")

\* the message of new Error(m || dflt)
MessageOr(m, dflt) == IF Truthy(m) /\ IsString(m) THEN m.s[1] ELSE dflt

\* the message analyzePrompt throws when the reply holds no text:
\* blockReason when it is a non-empty string, else "Model refused output"
RefusalMessage(data) ==
    LET reason == Get(Get(data, "promptFeedback"), "blockReason")
    IN  IF Truthy(reason) /\ IsString(reason)
        THEN "Model refused to generate output (blockReason)"
        ELSE "Model refused to generate output (Model refused output)"

\* AnalyzeOutcome that keeps the signals the classifier sent when it sent any
AnalyzeOutcomeKeepsModelSignals(data, signals) ==
    LET jsonString == ModelText(data)
        parsed == safeJsonParse(jsonString)
        result == parsed.value
        kept == IF Has(result, "signals") THEN Get(result, "signals") ELSE signals
    IN  IF Truthy(Get(data, "error")) \/ ~Truthy(jsonString) \/ ~parsed.ok
           \/ result.t # "object"
        THEN [ok |-> FALSE, msg |-> "failed", value |-> Undefined]
        ELSE [ok |-> TRUE, msg |-> "",
              value |-> Put(Put(result, "signals", kept), "riskScore",
                            applyRiskFloor(Get(result, "riskScore"), signals))]

\* analyzePrompt after response.json(): what it returns or throws
AnalyzeOutcome(data, signals) ==
    LET jsonString == ModelText(data)
        parsed == safeJsonParse(jsonString)
        result == parsed.value
    IN  IF Truthy(Get(data, "error"))
        THEN [ok |-> FALSE, msg |-> MessageOr(Get(Get(data, "error"), "message"),
                                              "Gemini API error"), value |-> Undefined]
        ELSE IF ~Truthy(jsonString)
        THEN [ok |-> FALSE, msg |-> RefusalMessage(data), value |-> Undefined]
        ELSE IF ~parsed.ok
        THEN [ok |-> FALSE, msg |-> "Model returned invalid JSON", value |-> Undefined]
        ELSE IF result.t # "object"
        THEN \* result.signals = signals on null or on a primitive (strict mode)
             [ok |-> FALSE, msg |-> "TypeError", value |-> Undefined]
        ELSE [ok |-> TRUE, msg |-> "",
              value |-> Put(Put(result, "signals", signals), "riskScore",
                            applyRiskFloor(Get(result, "riskScore"), signals))]

\* a filter that keeps every element, whatever its type
KeepEveryElement(items) == items

\* parsed.value.filter((x) => typeof x === "string")
RECURSIVE FilterStrings(_)
FilterStrings(items) ==
    IF items = <<>> THEN <<>>
    ELSE IF IsString(Head(items)) THEN <<Head(items)>> \o FilterStrings(Tail(items))
    ELSE FilterStrings(Tail(items))

\* .slice(0, 3)
Slice3(items) == SubSeq(items, 1, MathMin(3, Len(items)))

\* generateSanitizedAttacks after response.json()
GenerateOutcome(data) ==
    LET text == ModelText(data)
        parsed == safeJsonParse(text)
        arr == Slice3(FilterStrings(parsed.value.items))
    IN  IF Truthy(Get(data, "error"))
        THEN [ok |-> FALSE, msg |-> MessageOr(Get(Get(data, "error"), "message"),
                                              "Gemini API error (redteam)"), value |-> <<>>]
        ELSE IF ~Truthy(text)
        THEN [ok |-> FALSE, msg |-> "Model refused to generate red team variants", value |-> <<>>]
        ELSE IF ~parsed.ok \/ ~(parsed.value.t = "object" /\ parsed.value.isArray)
        THEN [ok |-> FALSE, msg |-> "Red team generator returned invalid JSON", value |-> <<>>]
        ELSE IF Len(arr) < 3
        THEN [ok |-> FALSE, msg |-> "Red team generator did not return 3 string variants",
              value |-> <<>>]
        ELSE [ok |-> TRUE, msg |-> "", value |-> arr]

\* ------------------------------------------------------------ routes
RECURSIVE SumRisk(_)
\* results.reduce((sum, r) => sum + (Number.isFinite(r.riskScore) ? r.riskScore : 0), 0)
SumRisk(results) ==
    IF results = <<>> THEN 0
    ELSE (IF IsFinite(Get(Head(results), "riskScore"))
          THEN Get(Head(results), "riskScore").n ELSE 0) + SumRisk(Tail(results))

RECURSIVE MaxRiskOf(_, _)
\* results.reduce((m, r) => Math.max(m, r.riskScore ?? 0), 0)
MaxRiskOf(results, m) ==
    IF results = <<>> THEN m
    ELSE LET score == Get(Head(results), "riskScore")
             v == IF score.t \in {"undefined", "null"} THEN 0 ELSE score.n
         IN  MaxRiskOf(Tail(results), MathMax(m, v))

\* the mean cut to an integer (Math.floor) where the code rounds it
FlooredMean(sum, length) == Whole(sum \div (Den * length))

\* Math.round(sum / length), sum counted in units of 1/Den
RoundedMean(sum, length) == Whole((2 * sum + Den * length) \div (2 * Den * length))

EvaluateBody(results) ==
    Obj([summary |-> Obj([total |-> Whole(Len(results)),
                          avgRisk |-> RoundedMean(SumRisk(results), Len(results)),
                          maxRisk |-> Num(MaxRiskOf(results, 0))]),
         results |-> Arr(results)])

\* the items a batch route loops over
BatchItems(rec) ==
    IF rec.route = "/redteam" THEN rec.variations ELSE Get(rec.body, "prompts").items

\* analyzePrompt returned `analyzed` to its route
AfterAnalyze(rec, analyzed) ==
    IF rec.route = "/analyze" THEN Respond(rec, 200, analyzed)
    ELSE LET results == Append(rec.results, SpreadWithPrompt(rec.cur, analyzed))
             rec1 == [rec EXCEPT !.results = results]
             items == BatchItems(rec)
         IN  IF Len(results) < Len(items)
             THEN BeginAnalyze(rec1, items[Len(results) + 1])
             ELSE IF rec.route = "/redteam"
             THEN Respond(rec1, 200, Obj([variations |-> Arr(rec.variations),
                                          results |-> Arr(results)]))
             ELSE Respond(rec1, 200, EvaluateBody(results))

\* response.json() resolved with data inside analyzePrompt
OnAnalyzeData(rec, data) ==
    LET out == AnalyzeOutcome(data, rec.signals)
    IN  IF out.ok
        THEN AfterAnalyze([rec EXCEPT !.log = Settle(rec.log, data, "returned", out.value)],
                          out.value)
        ELSE ThrowInCall(rec, data, out.msg)

\* response.json() resolved with data inside generateSanitizedAttacks
OnGenerateData(rec, data) ==
    LET out == GenerateOutcome(data)
    IN  IF out.ok
        THEN BeginAnalyze([rec EXCEPT !.variations = out.value,
                                      !.log = Settle(rec.log, data, "returned", Arr(out.value))],
                          out.value[1])
        ELSE ThrowInCall(rec, data, out.msg)

\* BeginEvaluate that already refuses a list of MAX_PROMPTS prompts
BeginEvaluateRefusesMax(rec) ==
    LET prompts == Get(rec.body, "prompts")
    IN  IF ~(prompts.t = "object" /\ prompts.isArray) \/ Len(prompts.items) = 0
        THEN Respond(rec, 400, ErrorBody("prompts must be a non-empty array"))
        ELSE IF Len(prompts.items) >= MAX_PROMPTS
        THEN Respond(rec, 400, ErrorBody("Too many prompts (max 50 for this demo)"))
        ELSE BeginAnalyze(rec, prompts.items[1])

\* POST /evaluate up to its first await
BeginEvaluate(rec) ==
    LET prompts == Get(rec.body, "prompts")
    IN  IF ~(prompts.t = "object" /\ prompts.isArray) \/ Len(prompts.items) = 0
        THEN Respond(rec, 400, ErrorBody("prompts must be a non-empty array"))
        ELSE IF Len(prompts.items) > MAX_PROMPTS
        THEN Respond(rec, 400, ErrorBody("Too many prompts (max 50 for this demo)"))
        ELSE BeginAnalyze(rec, prompts.items[1])

\* the route handler up to its first await
Route(rec) ==
    CASE rec.route = "/analyze" -> BeginAnalyze(rec, Get(rec.body, "prompt"))
      [] rec.route = "/redteam" -> BeginGenerate(rec, Get(rec.body, "prompt"))
      [] rec.route = "/evaluate" -> BeginEvaluate(rec)
      [] OTHER -> Respond(rec, 200, Obj([ok |-> Bool(TRUE), model |-> Str(<<"gemini">>)]))

\* app.use(rateLimit) and then the route
Admit(rec, record) ==
    IF Limited(record)
    THEN Respond(rec, 429, ErrorBody("Rate limit exceeded. Try again later."))
    ELSE Route(rec)

\* ------------------------------------------------------------ environment
\* What the classifier may put in riskScore (Undefined: no such key).
RawScores ==
    {Undefined, Null, Str(<<"90">>), Infinity, Num(0 - 5 * Den), Whole(0), Whole(50),
     Num(50 * Den + 1), Whole(90), Whole(100), Whole(150)}
ModelSignals == {Undefined, MkSignals(TRUE, TRUE), MkSignals(FALSE, FALSE)}
ModelEchoes == {Undefined, Str(<<"echoed">>)}

Opt(key, v) == IF v = Undefined THEN NoProps ELSE [k \in {key} |-> v]
ModelObject(score, signals, echo) ==
    Obj(Merge(Merge(Merge([summary |-> Str(<<"ok">>)], Opt("riskScore", score)),
                    Opt("signals", signals)), Opt("prompt", echo)))

TextData(text) == Obj([text |-> text])
\* replies that carry no usable text: an error object, a refusal, an empty
\* text, a text that is not JSON, a null body
FailureDatas ==
    {Obj([error |-> Obj([message |-> Str(<<"quota exceeded">>)])]),
     Obj([error |-> Obj(NoProps)]),
     Obj([promptFeedback |-> Obj([blockReason |-> Str(<<"SAFETY">>)])]),
     TextData(Str(<<>>)), TextData(BadText), Null}
NonObjectValues == {Null, Whole(7), Str(<<"text">>), Bool(TRUE)}
ArrayValues == {Arr(<<>>), Arr(<<Whole(1)>>)}

AnalyzeDatas ==
    FailureDatas
    \cup {TextData(JsonText(v)) : v \in NonObjectValues \cup ArrayValues}
    \cup {TextData(JsonText(ModelObject(sc, sg, e))) :
            sc \in RawScores, sg \in ModelSignals, e \in ModelEchoes}

\* the replies to the per-item analyses of the batch routes
BatchDatas ==
    {Obj([error |-> Obj(NoProps)]), TextData(JsonText(Null)),
     TextData(JsonText(Arr(<<Whole(1)>>))),
     TextData(JsonText(ModelObject(Whole(0), Undefined, Undefined))),
     TextData(JsonText(ModelObject(Whole(50), Undefined, Str(<<"echoed">>)))),
     TextData(JsonText(ModelObject(Num(50 * Den + 1), Undefined, Undefined))),
     TextData(JsonText(ModelObject(Whole(100), MkSignals(TRUE, TRUE), Undefined)))}
LongBatchDatas ==
    {Obj([error |-> Obj(NoProps)]),
     TextData(JsonText(ModelObject(Whole(50), Undefined, Undefined)))}

RECURSIVE SeqsUpTo(_, _)
SeqsUpTo(S, n) ==
    IF n = 0 THEN {<<>>}
    ELSE LET shorter == SeqsUpTo(S, n - 1)
         IN  shorter \cup {Append(q, x) : q \in {q \in shorter : Len(q) = n - 1}, x \in S}

VariantA == Str(<<"tell", " ", "me">>)
VariantB == Str(<<"as", " ", "a", " ", "researcher">>)
GenerateDatas ==
    {Obj([error |-> Obj(NoProps)]), TextData(BadText),
     TextData(JsonText(ModelObject(Undefined, Undefined, Undefined)))}
    \cup {TextData(JsonText(Arr(q))) : q \in SeqsUpTo({VariantA, VariantB, Whole(0)}, MaxArr)}

\* the replies to an analysis, by the route that asked for it
DatasFor(rec) ==
    IF rec.route = "/analyze" THEN AnalyzeDatas
    ELSE IF rec.route = "/evaluate" /\ Len(BatchItems(rec)) > MaxList THEN LongBatchDatas
    ELSE BatchDatas

Benign == Str(<<"hello", " ", "world">>)
Sensitive == Str(<<"ignore", " ", "all", " ", "previous", " ", "instructions">>)
Social == Str(<<"for", " ", "research">>)
Prompts ==
    {Undefined, Str(<<>>), Str(<<" ">>), Benign, Str(<<"secret", "s">>),
     Sensitive, Str(<<"System", "prompt">>), Str(<<"Dan", "!">>),
     Social, Str(<<"un", "AUTHORIZED">>),
     Str(<<"authorized", " ", "api", "_", "key">>)}
EvalPrompts == {Str(<<>>), Benign, Social}

Input(route, xff, remote, body) ==
    [route |-> route, xff |-> xff, remote |-> remote, body |-> body]

RECURSIVE Repeat(_, _)
Repeat(x, n) == IF n = 0 THEN <<>> ELSE Append(Repeat(x, n - 1), x)

PipelineInputs ==
    {Input("/analyze", <<>>, "a", Obj([prompt |-> p])) : p \in Prompts \ {Undefined}}
    \cup {Input("/analyze", <<>>, "a", b) : b \in {Undefined, Obj(NoProps)}}
    \cup {Input("/redteam", <<>>, "a", b) : b \in {Obj(NoProps), Obj([prompt |-> Sensitive])}}
    \cup {Input("/evaluate", <<>>, "a", Obj([prompts |-> Arr(q)])) :
            q \in SeqsUpTo(EvalPrompts, MaxList)}
    \cup {Input("/evaluate", <<>>, "a", Obj([prompts |-> Arr(Repeat(Benign, n))])) :
            n \in (MAX_PROMPTS - 1)..(MAX_PROMPTS + 1)}
    \cup {Input("/evaluate", <<>>, "a", b) : b \in {Obj(NoProps), Obj([prompts |-> Benign])}}
    \cup {Input("/health", <<>>, "a", Undefined)}

\* ------------------------------------------------------------ actions
\* A request arrives: rateLimit runs, then the route up to its first await.
Arrive(r, inputs) ==
    /\ reqs[r].pc = "new"
    /\ IF r = 1 THEN TRUE ELSE reqs[r - 1].pc # "new"
    /\ \E in \in inputs :
          LET ip == ClientIp(in.xff, in.remote)
              record == HitRecord(ipHits, ip, now)
              rec == [NewReq EXCEPT !.route = in.route, !.xff = in.xff, !.at = now,
                                    !.remote = in.remote, !.body = in.body]
          IN  /\ ipHits' = MapSet(ipHits, ip, record)
              /\ reqs' = [reqs EXCEPT ![r] = Admit(rec, record)]
    /\ UNCHANGED now

\* fetch() rejects (a transport failure); finally clears the timer
FetchRejects(r) ==
    /\ reqs[r].pc = "fetch"
    /\ reqs' = [reqs EXCEPT ![r] =
                  ThrowInCall([reqs[r] EXCEPT !.timer = "cleared"], Undefined, "fetch failed")]
    /\ UNCHANGED <<now, ipHits>>

\* the timer of fetchWithTimeout fires: controller.abort() rejects fetch()
TimerFires(r) ==
    /\ reqs[r].pc = "fetch"
    /\ reqs[r].timer = "armed"
    /\ reqs' = [reqs EXCEPT ![r] =
                  ThrowInCall([reqs[r] EXCEPT !.timer = "fired"], Undefined,
                              "The operation was aborted.")]
    /\ UNCHANGED <<now, ipHits>>

\* fetch() resolves with the response's headers; finally clears the timer
HeadersArrive(r) ==
    /\ reqs[r].pc = "fetch"
    /\ reqs' = [reqs EXCEPT ![r] = [@ EXCEPT !.pc = "body", !.timer = "cleared"]]
    /\ UNCHANGED <<now, ipHits>>

\* response.json() rejects: the body is not JSON or its stream breaks
BodyFails(r) ==
    /\ reqs[r].pc = "body"
    /\ reqs' = [reqs EXCEPT ![r] = ThrowInCall(reqs[r], Undefined, "invalid json response body")]
    /\ UNCHANGED <<now, ipHits>>

\* response.json() resolves inside analyzePrompt
AnalyzeResumes(r, datas) ==
    /\ reqs[r].pc = "body"
    /\ reqs[r].fn = "analyzePrompt"
    /\ \E data \in datas : reqs' = [reqs EXCEPT ![r] = OnAnalyzeData(reqs[r], data)]
    /\ UNCHANGED <<now, ipHits>>

\* response.json() resolves inside generateSanitizedAttacks
GenerateResumes(r, datas) ==
    /\ reqs[r].pc = "body"
    /\ reqs[r].fn = "generateSanitizedAttacks"
    /\ \E data \in datas : reqs' = [reqs EXCEPT ![r] = OnGenerateData(reqs[r], data)]
    /\ UNCHANGED <<now, ipHits>>

\* Date.now() advances
Tick ==
    /\ now < MaxTime
    /\ now' = now + 1
    /\ UNCHANGED <<ipHits, reqs>>

NoHits == [k \in {} |-> [count |-> 0, resetAt |-> 0]]

\* One request through the three routes.
Init ==
    /\ now = 0
    /\ ipHits = NoHits
    /\ reqs = [r \in {1} |-> NewReq]

Next ==
    \/ \E r \in DOMAIN reqs : Arrive(r, PipelineInputs)
    \/ \E r \in DOMAIN reqs : FetchRejects(r)
    \/ \E r \in DOMAIN reqs : TimerFires(r)
    \/ \E r \in DOMAIN reqs : HeadersArrive(r)
    \/ \E r \in DOMAIN reqs : BodyFails(r)
    \/ \E r \in DOMAIN reqs : AnalyzeResumes(r, DatasFor(reqs[r]))
    \/ \E r \in DOMAIN reqs : GenerateResumes(r, GenerateDatas)

Spec == Init /\ [][Next]_vars

\* Requests from two sources, in flight together, while the clock runs.
RateInputs ==
    {Input("/health", <<>>, "a", Undefined),
     Input("/analyze", <<>>, "a", Obj([prompt |-> Benign])),
     Input("/health", <<"b", "a">>, "a", Undefined)}
RateDatas == {TextData(JsonText(ModelObject(Whole(50), Undefined, Undefined)))}

RateInit ==
    /\ now = 0
    /\ ipHits = NoHits
    /\ reqs = [r \in 1..MaxRequests |-> NewReq]

RateNext ==
    \/ \E r \in DOMAIN reqs : Arrive(r, RateInputs)
    \/ \E r \in DOMAIN reqs : HeadersArrive(r)
    \/ \E r \in DOMAIN reqs : AnalyzeResumes(r, RateDatas)
    \/ Tick

RateSpec == RateInit /\ [][RateNext]_vars

\* The timer of fetchWithTimeout is a setTimeout: once armed it fires unless
\* it is cleared first.  Nothing obliges the remote service to answer.
LiveSpec == Init /\ [][Next]_vars /\ WF_vars(TimerFires(1))

\* ------------------------------------------------------------ properties
Range(q) == {q[i] : i \in 1..Len(q)}
\* the outbound calls made so far, over all requests
Calls == UNION {Range(reqs[r].log) : r \in DOMAIN reqs}
\* the calls of analyzePrompt that returned a result
Analyses == {e \in Calls : e.fn = "analyzePrompt" /\ e.state = "returned"}
\* the value the classifier's text parsed to, and its riskScore
ModelValue(e) == safeJsonParse(ModelText(e.data)).value
RawScore(e) == Get(ModelValue(e), "riskScore")
MatchesSensitive(prompt) == matches(SENSITIVE_TARGET_PATTERNS, PromptText(prompt))
MatchesSocial(prompt) == matches(SOCIAL_ENGINEERING_PATTERNS, PromptText(prompt))
AtLeast(v, i) == IsFinite(v) /\ v.n >= i * Den

\* C1: every result analyzePrompt returns for a prompt that matches a
\* sensitive-target pattern has signals.sensitiveTarget = true and
\* riskScore >= 80, whatever riskScore the classifier gave.
C1_SensitiveFloor ==
    \A e \in Analyses :
        MatchesSensitive(e.prompt) =>
            /\ Get(Get(e.value, "signals"), "sensitiveTarget") = Bool(TRUE)
            /\ AtLeast(Get(e.value, "riskScore"), 80)

\* a sensitive prompt that the classifier scored 0 came out at 80
C1_Witness ==
    \E e \in Analyses :
        /\ MatchesSensitive(e.prompt)
        /\ RawScore(e) = Whole(0)
        /\ Get(e.value, "riskScore") = Whole(80)

\* C2 as stated: the score after the floor is never below the classifier's
\* raw score, for every number the classifier can return.
C2_NeverBelowRaw ==
    \A e \in Analyses :
        RawScore(e).t = "number" =>
            /\ RawScore(e).fin
            /\ Get(e.value, "riskScore").n >= RawScore(e).n

\* C2 amended: for every finite raw score the result lies in [0,100] and is
\* never below the smaller of the raw score and 100.
C2_NeverBelowCappedRaw ==
    \A e \in Analyses :
        LET score == Get(e.value, "riskScore")
        IN  /\ IsFinite(score) /\ score.n >= 0 /\ score.n <= 100 * Den
            /\ IsFinite(RawScore(e)) => score.n >= MathMin(RawScore(e).n, 100 * Den)

\* a raw score of 150 came out at 100, though a floor applied
C2_Witness ==
    \E e \in Analyses :
        /\ MatchesSocial(e.prompt)
        /\ RawScore(e) = Whole(150)
        /\ Get(e.value, "riskScore") = Whole(100)

\* C3: every 200 response of /analyze is an object whose riskScore is an
\* integer in [0,100].
C3_IntegerScoreOnSuccess ==
    \A r \in DOMAIN reqs :
        (reqs[r].route = "/analyze" /\ reqs[r].status = 200) =>
            /\ ~reqs[r].resp.isArray
            /\ IsInteger(Get(reqs[r].resp, "riskScore"))
            /\ Get(reqs[r].resp, "riskScore").n >= 0
            /\ Get(reqs[r].resp, "riskScore").n <= 100 * Den

\* C4: the signals of every result analyzePrompt returns are extractSignals
\* of that call's prompt, so two analyses of one prompt agree on them
\* whatever signals the classifier sent.
C4_SignalsFromPrompt ==
    /\ \A e \in Analyses : Get(e.value, "signals") = extractSignals(e.prompt)
    /\ \A e1, e2 \in Analyses :
          e1.prompt = e2.prompt => Get(e1.value, "signals") = Get(e2.value, "signals")

\* one request analysed the same prompt twice; the classifier sent signals
\* that differ from the prompt's once, and none the other time
C4_Witness ==
    \E r \in DOMAIN reqs : \E i, j \in 1..Len(reqs[r].log) :
        LET e1 == reqs[r].log[i]
            e2 == reqs[r].log[j]
        IN  /\ e1 \in Analyses /\ e2 \in Analyses /\ e1.prompt = e2.prompt
            /\ Has(ModelValue(e1), "signals")
            /\ Get(ModelValue(e1), "signals") # extractSignals(e1.prompt)
            /\ ~Has(ModelValue(e2), "signals")

\* C5: a 200 response of /redteam has 3 variations and 3 results, and the
\* i-th result's prompt is the i-th variation.
C5_ResultPairedWithVariant ==
    \A r \in DOMAIN reqs :
        (reqs[r].route = "/redteam" /\ reqs[r].status = 200) =>
            LET variations == Get(reqs[r].resp, "variations").items
                results == Get(reqs[r].resp, "results").items
            IN  /\ Len(variations) = 3
                /\ Len(results) = 3
                /\ \A i \in 1..3 : Get(results[i], "prompt") = variations[i]

\* the prompt each outbound call of a request is due to carry
DuePrompt(rec, i) ==
    CASE rec.route = "/analyze" -> Get(rec.body, "prompt")
      [] rec.route = "/redteam" ->
            IF i = 1 THEN Get(rec.body, "prompt") ELSE rec.variations[i - 1]
      [] OTHER -> Get(rec.body, "prompts").items[i]

\* C6: a failed call is the last call of its request (no retry, no further
\* item), every call belongs to its own item, and the response to a failure
\* is a 500 that holds an error message and nothing else.
C6_FailFast ==
    \A r \in DOMAIN reqs :
        LET rec == reqs[r]
            n == Len(rec.log)
        IN  /\ \A i \in 1..n : rec.log[i].prompt = DuePrompt(rec, i)
            /\ \A i \in 1..n : i < n => rec.log[i].state = "returned"
            /\ rec.route = "/analyze" => n <= 1
            /\ rec.route = "/redteam" => n <= 4
            /\ (n > 0 /\ rec.log[n].state = "threw") =>
                  /\ rec.pc = "done"
                  /\ rec.status = 500
                  /\ DOMAIN rec.resp.props = {"error"}
                  /\ Truthy(Get(rec.resp, "error"))
                  /\ rec.resp.items = <<>>

\* /redteam failed on its second variant, one result already held
C6_Witness ==
    \E r \in DOMAIN reqs :
        /\ reqs[r].route = "/redteam" /\ reqs[r].status = 500
        /\ Len(reqs[r].log) = 3 /\ reqs[r].log[3].state = "threw"
        /\ Len(reqs[r].results) = 1

\* C7: a request that waits for the remote service is answered in the end.
C7_NoRequestPendsForever ==
    (reqs[1].pc \in {"fetch", "body"}) ~> (reqs[1].pc = "done")

\* C9: /evaluate answers 400, with no analysis started, exactly when the
\* prompts list is empty or longer than 50; a list of 1 to 50 prompts whose
\* analyses all succeed is answered 200 with total = the list's length and
\* the i-th result the analysis of the i-th prompt.
C9_EvaluateSizes ==
    \A r \in DOMAIN reqs :
        LET rec == reqs[r]
            prompts == Get(rec.body, "prompts")
            n == Len(prompts.items)
            bad == n = 0 \/ n > 50
            results == Get(rec.resp, "results").items
        IN  (rec.route = "/evaluate" /\ prompts.t = "object" /\ prompts.isArray) =>
              /\ bad => (rec.status = 400 /\ rec.log = <<>>)
              /\ rec.status = 400 => bad
              /\ (~bad /\ Len(rec.log) = n /\ rec.log[n].state = "returned") =>
                    /\ rec.status = 200
                    /\ Get(Get(rec.resp, "summary"), "total") = Whole(n)
                    /\ Len(results) = n
                    /\ \A i \in 1..n :
                          /\ rec.log[i].prompt = prompts.items[i]
                          /\ results[i] = Serialize(SpreadWithPrompt(prompts.items[i],
                                                                     rec.log[i].value))
              /\ rec.status = 200 => (~bad /\ Len(rec.log) = n)

\* a list of exactly 50 prompts answered 200
C9_Witness ==
    \E r \in DOMAIN reqs :
        /\ reqs[r].route = "/evaluate" /\ reqs[r].status = 200
        /\ Len(Get(reqs[r].body, "prompts").items) = 50
        /\ Get(Get(reqs[r].resp, "summary"), "total") = Whole(50)

\* C10: every result analyzePrompt returns for a prompt that matches a
\* social-engineering pattern and no sensitive-target pattern has
\* signals.sensitiveTarget = false and riskScore >= 40.
C10_SocialFloor ==
    \A e \in Analyses :
        (MatchesSocial(e.prompt) /\ ~MatchesSensitive(e.prompt)) =>
            /\ Get(Get(e.value, "signals"), "sensitiveTarget") = Bool(FALSE)
            /\ AtLeast(Get(e.value, "riskScore"), 40)

\* a social-engineering prompt scored 0 came out at 40
C10_Witness ==
    \E e \in Analyses :
        /\ MatchesSocial(e.prompt) /\ ~MatchesSensitive(e.prompt)
        /\ RawScore(e) = Whole(0) /\ Get(e.value, "riskScore") = Whole(40)

\* C11: every result analyzePrompt returns for a prompt that matches neither
\* pattern group has as riskScore the classifier's raw score clamped to
\* [0,100], and 0 when the raw score is not a finite number.
C11_NoFloorWithoutMatch ==
    \A e \in Analyses :
        (~MatchesSensitive(e.prompt) /\ ~MatchesSocial(e.prompt)) =>
            LET raw == RawScore(e)
                score == Get(e.value, "riskScore")
            IN  /\ score.t = "number"
                /\ ~IsFinite(raw) => score = Whole(0)
                /\ (IsFinite(raw) /\ raw.n < 0) => score = Whole(0)
                /\ (IsFinite(raw) /\ raw.n > 100 * Den) => score = Whole(100)
                /\ (IsFinite(raw) /\ raw.n >= 0 /\ raw.n <= 100 * Den) => score = raw

\* a prompt that matches nothing kept a raw score below both floors
C11_Witness ==
    \E e \in Analyses :
        /\ ~MatchesSensitive(e.prompt) /\ ~MatchesSocial(e.prompt)
        /\ e.prompt = Benign
        /\ RawScore(e) = Whole(0) /\ Get(e.value, "riskScore") = Whole(0)

\* the sum of the first n scores of a list of number values, in units of 1/Den
RECURSIVE ScoreTotal(_, _)
ScoreTotal(scores, n) ==
    IF n = 0 THEN 0 ELSE scores[n].n + ScoreTotal(scores, n - 1)

\* C12: in every 200 response of /evaluate, summary.avgRisk is the integer
\* nearest to the arithmetic mean of the riskScore values of the entries of
\* results (a half rounds up) and summary.maxRisk is the largest of those
\* riskScore values.
C12_SummaryOfResults ==
    \A r \in DOMAIN reqs :
        (reqs[r].route = "/evaluate" /\ reqs[r].status = 200) =>
            LET results == Get(reqs[r].resp, "results").items
                n == Len(results)
                scores == [i \in 1..n |-> Get(results[i], "riskScore")]
                total == ScoreTotal(scores, n)
                avgRisk == Get(Get(reqs[r].resp, "summary"), "avgRisk")
                maxRisk == Get(Get(reqs[r].resp, "summary"), "maxRisk")
            IN  /\ n > 0
                /\ \A i \in 1..n : IsFinite(scores[i])
                /\ IsInteger(avgRisk)
                /\ 2 * avgRisk.n * n - Den * n <= 2 * total
                /\ 2 * total < 2 * avgRisk.n * n + Den * n
                /\ \E i \in 1..n : maxRisk = scores[i]
                /\ \A i \in 1..n : scores[i].n <= maxRisk.n

\* results scored 0, 50 and 100 were summarised as avgRisk 50, maxRisk 100
C12_Witness ==
    \E r \in DOMAIN reqs :
        /\ reqs[r].route = "/evaluate" /\ reqs[r].status = 200
        /\ Len(Get(reqs[r].resp, "results").items) = 3
        /\ Get(Get(reqs[r].resp, "results").items[1], "riskScore") = Whole(0)
        /\ Get(Get(reqs[r].resp, "results").items[2], "riskScore") = Whole(50)
        /\ Get(Get(reqs[r].resp, "results").items[3], "riskScore") = Whole(100)
        /\ Get(Get(reqs[r].resp, "summary"), "avgRisk") = Whole(50)
        /\ Get(Get(reqs[r].resp, "summary"), "maxRisk") = Whole(100)

\* the calls of generateSanitizedAttacks that were answered
Generations == {e \in Calls : e.fn = "generateSanitizedAttacks" /\ e.state # "pending"}
\* the reply of a call held text that parses to an array
ParsedArray(e) ==
    /\ ~Truthy(Get(e.data, "error"))
    /\ safeJsonParse(ModelText(e.data)).ok
    /\ ModelValue(e).t = "object" /\ ModelValue(e).isArray
\* the positions of the string-typed elements of a list
StringPositions(items) == {i \in 1..Len(items) : items[i].t = "string"}
\* out is the first three string-typed elements of items, in their order
FirstThreeStrings(out, items) ==
    \E i1, i2, i3 \in StringPositions(items) :
        /\ i1 < i2 /\ i2 < i3
        /\ \A j \in StringPositions(items) : j < i3 => j \in {i1, i2}
        /\ out = <<items[i1], items[i2], items[i3]>>

\* C13: a call of generateSanitizedAttacks that returns, returns the first 3
\* string-typed elements of the parsed array in their order; when the parsed
\* array holds fewer than 3 strings the call throws, and /redteam answers 500
\* without analysing anything; /redteam analyses variants only when it holds
\* exactly 3.
C13_ExactlyThreeVariants ==
    /\ \A e \in Generations :
          /\ e.state = "returned" =>
                /\ ParsedArray(e)
                /\ e.value.isArray
                /\ FirstThreeStrings(e.value.items, ModelValue(e).items)
          /\ (ParsedArray(e) /\ Cardinality(StringPositions(ModelValue(e).items)) < 3) =>
                e.state = "threw"
    /\ \A r \in DOMAIN reqs :
          LET rec == reqs[r]
          IN  rec.route = "/redteam" =>
                /\ Len(rec.log) > 1 =>
                      /\ rec.log[1].state = "returned"
                      /\ rec.variations = rec.log[1].value.items
                      /\ Len(rec.variations) = 3
                /\ (Len(rec.log) >= 1 /\ rec.log[1].state = "threw") =>
                      /\ Len(rec.log) = 1
                      /\ rec.variations = <<>>
                      /\ rec.status = 500
                      /\ DOMAIN rec.resp.props = {"error"}
                /\ rec.status = 200 =>
                      /\ Len(rec.log) = 4
                      /\ Get(rec.resp, "variations").items = rec.variations

\* the generator was sent a number between the strings and returned the
\* three strings around it
C13_Witness ==
    \E e \in Generations :
        /\ e.state = "returned"
        /\ ModelValue(e).items = <<VariantA, Whole(0), VariantB, VariantA>>
        /\ e.value.items = <<VariantA, VariantB, VariantA>>

\* the source rateLimit attributes a request to
SourceOf(rec) == ClientIp(rec.xff, rec.remote)
\* how many requests the source made in its current window, the window of
\* length RATE_WINDOW_MS that ends at resetAt
MadeInWindow(ip) ==
    Cardinality({q \in DOMAIN reqs :
                    /\ reqs[q].pc # "new"
                    /\ SourceOf(reqs[q]) = ip
                    /\ reqs[q].at >= ipHits[ip].resetAt - RATE_WINDOW_MS})

\* C8: a request that arrives while its source's window runs, after the
\* source has made the maximum number of requests in that window, gets 429
\* and reaches no route logic; the first request after the window has
\* elapsed is admitted.
C8_RateWindow ==
    [][\A r \in DOMAIN reqs :
          (reqs[r].pc = "new" /\ reqs'[r].pc # "new") =>
              LET ip == SourceOf(reqs'[r])
              IN  ip \in DOMAIN ipHits =>
                    /\ (now <= ipHits[ip].resetAt /\ MadeInWindow(ip) >= RATE_MAX_REQ) =>
                          /\ reqs'[r].status = 429
                          /\ reqs'[r].pc = "done"
                          /\ reqs'[r].log = <<>>
                          /\ DOMAIN reqs'[r].resp.props = {"error"}
                    /\ now > ipHits[ip].resetAt => reqs'[r].status # 429]_vars

\* a source was refused in one window and admitted after it
C8_Witness ==
    \E q, r \in DOMAIN reqs :
        /\ q < r
        /\ reqs[q].status = 429 /\ reqs[r].status = 200
        /\ SourceOf(reqs[q]) = SourceOf(reqs[r])
        /\ reqs[r].at > reqs[q].at + RATE_WINDOW_MS

\* the requests of a source that were let through in its current window
AdmittedInWindow(ip) ==
    Cardinality({q \in DOMAIN reqs :
                    /\ reqs[q].pc # "new"
                    /\ SourceOf(reqs[q]) = ip
                    /\ reqs[q].at >= ipHits[ip].resetAt - RATE_WINDOW_MS
                    /\ reqs[q].status # 429})

\* C14: whatever requests are in flight, a source's counter equals the number
\* of requests the source made in its current window (no increment is lost),
\* at most RATE_MAX_REQ of them were admitted, and only the arrival of a
\* request changes a counter: a request that resumes from a remote call
\* leaves every counter as it is.
C14_NoLostIncrement ==
    /\ [](\A ip \in DOMAIN ipHits :
            /\ ipHits[ip].count = MadeInWindow(ip)
            /\ AdmittedInWindow(ip) <= RATE_MAX_REQ)
    /\ [][/\ (\A r \in DOMAIN reqs : reqs[r].pc = "new" <=> reqs'[r].pc = "new")
                => ipHits' = ipHits
           /\ \A r \in DOMAIN reqs :
                (reqs[r].pc = "new" /\ reqs'[r].pc # "new") =>
                    LET ip == SourceOf(reqs'[r])
                    IN  /\ \A k \in DOMAIN ipHits : k # ip => ipHits'[k] = ipHits[k]
                        /\ (ip \in DOMAIN ipHits /\ now <= ipHits[ip].resetAt) =>
                              ipHits'[ip].count = ipHits[ip].count + 1
                        /\ reqs'[r].status = 429 <=> ipHits'[ip].count > RATE_MAX_REQ]_vars

\* a request waits on its remote call while its source is refused in the
\* same window, the counter holding all three requests
C14_Witness ==
    \E q, r \in DOMAIN reqs :
        /\ q < r
        /\ reqs[q].pc \in {"fetch", "body"}
        /\ reqs[r].status = 429
        /\ SourceOf(reqs[q]) = SourceOf(reqs[r])
        /\ reqs[q].at >= ipHits[SourceOf(reqs[r])].resetAt - RATE_WINDOW_MS
        /\ reqs[r].at >= ipHits[SourceOf(reqs[r])].resetAt - RATE_WINDOW_MS
        /\ ipHits[SourceOf(reqs[r])].count = RATE_MAX_REQ + 1
====
